---------------------------- MODULE Spec2Model ----------------------------
(***************************************************************************)
(* Model of the PDF-text parsing pipeline of src/parser.py:                *)
(*   parse_pdf_text -> _extract_blocks -> _rows_from_block                 *)
(*                     (_extract_context, _find_table_header, the row      *)
(*                      loop with emit_row, _join_desc_parts, _norm_amount)*)
(* of the text extraction in front of it (_pdf_to_text, called by          *)
(* parse_pdf_filelike) and of the batch loop of src/app.py (_parse_many).  *)
(*                                                                         *)
(* Text representation.  A string is a sequence of symbols.  A symbol is   *)
(* a single character ("0".."9", ".", ",", " ", "-", "/", ":", "A", "B")  *)
(* or a literal word that the patterns of the source only ever match as a  *)
(* whole ("Tabelle", "Dimension", "Code", "Beschreibung", "Betrag",        *)
(* "(EUR)", "EUR", "Priorität", "Spezifisches", "Ziel", TITLE, and plain   *)
(* description words).  The document is the sequence of its lines          *)
(* (str.splitlines).  The MULTILINE patterns of the source are anchored    *)
(* with ^ and $; the documents drawn here hold no blank line in front of  *)
(* a heading, marker or header and no line that is a proper fragment of    *)
(* one, so every match of such a pattern lies within one line and a match  *)
(* offset is a line index.                                                 *)
(***************************************************************************)
EXTENDS Integers, Sequences, FiniteSets, TLC

VARIABLES
    full_text,    \* parse_pdf_text: the document text (sequence of lines)
    pc,           \* position in parse_pdf_text / _rows_from_block
    blocks,       \* _extract_blocks result: sequence of [section, text]
    bi,           \* index of the block being worked on (for b in blocks)
    ctx,          \* _rows_from_block: ctx of the current block
    dims,         \* _rows_from_block: line indices of the RE_DIMENSION matches
    di,           \* index into dims (for di, dim_match in enumerate(dims))
    dimension_label,
    lines,        \* the table's line region
    i,            \* line cursor of the while loop (number of lines consumed)
    curr_code,    \* Optional[str]
    desc_parts,   \* List[str]
    pending_amt,  \* Optional[str]
    rows,         \* _rows_from_block: rows of the current block
    all_rows,     \* parse_pdf_text: all_rows
    files,        \* _parse_many: the uploaded files, in upload order
    fi,           \* index of the file being parsed (for f in files)
    text_parts,   \* _pdf_to_text: text_parts
    page,         \* _pdf_to_text: number of pages read by the primary extractor
    miner_calls,  \* calls of the secondary extractor for the current file
    frames,       \* _parse_many: all_rows, the non-empty frames so far
    warnings,     \* st.warning calls: indices of the files whose parse raised
    batch,        \* _parse_many: out, the returned frame
    fragments,    \* _join_desc_parts: the argument parts of a direct call
    joined        \* _join_desc_parts: the value returned by that call

\* The variables of src/app.py and of _pdf_to_text.
appvars == <<files, fi, text_parts, page, miner_calls, frames, warnings, batch>>

\* The variables of a direct call of _join_desc_parts.
callvars == <<fragments, joined>>

vars == <<full_text, pc, blocks, bi, ctx, dims, di, dimension_label, lines, i,
          curr_code, desc_parts, pending_amt, rows, all_rows, files, fi,
          text_parts, page, miner_calls, frames, warnings, batch, fragments,
          joined>>

-----------------------------------------------------------------------------
(* Values *)

\* Python's None, as a value comparable with strings (sequences of symbols).
None == <<"<None>">>

\* float("nan"); every other amount is a number of hundredths (cents) >= 0.
NaN == -1

Digits == {"0", "1", "2", "3", "4", "5", "6", "7", "8", "9"}
Upper == {"A", "B"}
\* str.isspace / the \s class: the space and the no-break space U+00A0.
Whitespace == {" ", "NBSP"}
\* The soft hyphen U+00AD.
SoftHyphen == "SHY"
\* The fixed section title SECTION_TITLE_GERMAN, matched as a whole.
TITLE == "Indikative Aufschlüsselung der Programmmittel (EU) nach Art der Intervention"
\* Symbols that are no word characters (\w): a keyword followed by one of
\* them, or by the end of the string, ends at a word boundary \b.
NonWord == Whitespace \cup {".", ",", "-", "/", ":", "(EUR)", SoftHyphen}

IsDigit(c) == c \in Digits
IsSpace(c) == c \in Whitespace

DigitVal(c) ==
    CASE c = "0" -> 0 [] c = "1" -> 1 [] c = "2" -> 2 [] c = "3" -> 3
      [] c = "4" -> 4 [] c = "5" -> 5 [] c = "6" -> 6 [] c = "7" -> 7
      [] c = "8" -> 8 [] c = "9" -> 9

-----------------------------------------------------------------------------
(* String helpers *)

Drop(s, n) == SubSeq(s, n + 1, Len(s))
Take(s, n) == SubSeq(s, 1, n)
Last(s) == s[Len(s)]

RECURSIVE lstrip(_)
lstrip(s) == IF s # <<>> /\ IsSpace(s[1]) THEN lstrip(Tail(s)) ELSE s

RECURSIVE rstrip(_)
rstrip(s) ==
    IF s # <<>> /\ IsSpace(s[Len(s)]) THEN rstrip(Take(s, Len(s) - 1)) ELSE s

strip(s) == lstrip(rstrip(s))

\* Number of leading symbols of s that are digits / whitespace.
RECURSIVE DigitRun(_)
DigitRun(s) == IF s # <<>> /\ IsDigit(s[1]) THEN 1 + DigitRun(Tail(s)) ELSE 0

RECURSIVE SpaceRun(_)
SpaceRun(s) == IF s # <<>> /\ IsSpace(s[1]) THEN 1 + SpaceRun(Tail(s)) ELSE 0

AllDigits(s) == \A k \in 1..Len(s) : IsDigit(s[k])

\* s.replace(a, b) for single symbols; b = "" deletes.
RECURSIVE Replace(_, _, _)
Replace(s, a, b) ==
    IF s = <<>> THEN <<>>
    ELSE (IF s[1] = a THEN b ELSE <<s[1]>>) \o Replace(Tail(s), a, b)

\* Concatenation of a sequence of sequences.
RECURSIVE Concat(_)
Concat(ss) == IF ss = <<>> THEN <<>> ELSE ss[1] \o Concat(Tail(ss))

\* [f(x) for x in s if p(x)] for the filters the source uses.
RECURSIVE NonBlank(_)
NonBlank(ls) ==
    IF ls = <<>> THEN <<>>
    ELSE (IF strip(ls[1]) # <<>> THEN <<ls[1]>> ELSE <<>>) \o NonBlank(Tail(ls))

\* A sequence of keywords separated by \s+ at the start of s:
\* <<TRUE, what follows the last keyword>> or <<FALSE, <<>>>>.
RECURSIVE EatWords(_, _)
EatWords(s, kws) ==
    IF kws = <<>> THEN <<TRUE, s>>
    ELSE IF s = <<>> \/ s[1] # kws[1] THEN <<FALSE, <<>>>>
    ELSE IF Len(kws) = 1 THEN <<TRUE, Tail(s)>>
    ELSE IF SpaceRun(Tail(s)) = 0 THEN <<FALSE, <<>>>>
    ELSE EatWords(lstrip(Tail(s)), Tail(kws))

-----------------------------------------------------------------------------
(* Patterns (src/parser.py, "Patterns").  A match result is a record with  *)
(* field ok and the groups of the pattern.                                 *)

NoMatch == [ok |-> FALSE]

\* Leading symbols of s that can belong to an amount token.
RECURSIVE AmountRun(_)
AmountRun(s) ==
    IF s # <<>> /\ (IsDigit(s[1]) \/ s[1] \in {".", ","})
    THEN 1 + AmountRun(Tail(s)) ELSE 0

\* (?:\.\d{3})*(?:,\d{2})? up to the end of t.
RECURSIVE AmountGroups(_)
AmountGroups(t) ==
    IF t = <<>> THEN TRUE
    ELSE IF t[1] = "." THEN
        /\ Len(t) >= 4
        /\ AllDigits(SubSeq(t, 2, 4))
        /\ AmountGroups(Drop(t, 4))
    ELSE IF t[1] = "," THEN Len(t) = 3 /\ AllDigits(SubSeq(t, 2, 3))
    ELSE FALSE

\* \d{1,3}(?:\.\d{3})*(?:,\d{2})? matching all of t.
IsAmountToken(t) ==
    /\ DigitRun(t) \in 1..3
    /\ AmountGroups(Drop(t, DigitRun(t)))

\* (?P<amt>\d{1,3}(?:\.\d{3})*(?:,\d{2})?)\s*(?:EUR)?\s*$ matched at the
\* start of s.  What follows amt is whitespace, EUR or the end, so amt is
\* the whole run of digits, dots and commas that s starts with.
AmountAtStart(s) ==
    LET n == AmountRun(s)
        amt == Take(s, n)
        r1 == lstrip(Drop(s, n))
        r2 == IF r1 # <<>> /\ r1[1] = "EUR" THEN lstrip(Tail(r1)) ELSE r1
    IN  IF IsAmountToken(amt) /\ r2 = <<>> THEN [ok |-> TRUE, amt |-> amt]
        ELSE NoMatch

\* RE_AMOUNT_ONLY.match(ln)
RE_AMOUNT_ONLY(ln) == AmountAtStart(lstrip(ln))

\* RE_AMOUNT_TRAILING.search(s): the leftmost offset (0-based, >= k) at
\* which the pattern matches up to the end of s.
RECURSIVE AmountSearchFrom(_, _)
AmountSearchFrom(s, k) ==
    IF k >= Len(s) THEN NoMatch
    ELSE LET m == AmountAtStart(Drop(s, k))
         IN  IF m.ok THEN [ok |-> TRUE, amt |-> m.amt, start |-> k]
             ELSE AmountSearchFrom(s, k + 1)

RE_AMOUNT_TRAILING(s) == AmountSearchFrom(s, 0)

\* RE_CODE_LINE.match(ln): ^\s*(?P<code>\d{2,3})\s+(?P<rest>.+)$
\* The code is followed by whitespace, so it is the whole digit run; \s+
\* gives back its last symbol when nothing else is left for .+
RE_CODE_LINE(ln) ==
    LET s == lstrip(ln)
        d == DigitRun(s)
        w == SpaceRun(Drop(s, d))
        r == Drop(s, d + w)
    IN  IF d \in 2..3 /\ w >= 1 /\ (r # <<>> \/ w >= 2)
        THEN [ok |-> TRUE, code |-> Take(s, d),
              rest |-> IF r # <<>> THEN r ELSE <<s[d + w]>>]
        ELSE NoMatch

\* PAGE_NUMBER_LIKE.match(ln): ^\s*\d{1,3}\s*$
PAGE_NUMBER_LIKE(ln) ==
    LET s == strip(ln) IN Len(s) \in 1..3 /\ AllDigits(s)

\* (?:\.\d+)* up to the end of t.
RECURSIVE DotNumbers(_)
DotNumbers(t) ==
    IF t = <<>> THEN TRUE
    ELSE /\ t[1] = "."
         /\ DigitRun(Tail(t)) >= 1
         /\ DotNumbers(Drop(t, 1 + DigitRun(Tail(t))))

\* SECTION_ID matching all of t:
\* (?:\d+(?:\.\d+)*|(?:\d+\.)?[A-Z](?:\.\d+)*)
SECTION_ID(t) ==
    LET d == DigitRun(t)
        u == IF d >= 1 /\ Len(t) > d /\ t[d + 1] = "." THEN Drop(t, d + 1) ELSE t
    IN  \/ d >= 1 /\ DotNumbers(Drop(t, d))
        \/ u # <<>> /\ u[1] \in Upper /\ DotNumbers(Tail(u))

\* Leading symbols of s that are no whitespace.
RECURSIVE NonSpaceRun(_)
NonSpaceRun(s) ==
    IF s # <<>> /\ ~IsSpace(s[1]) THEN 1 + NonSpaceRun(Tail(s)) ELSE 0

\* RE_BLOCK_START on one line: ^\s*(?P<section>SECTION_ID)\s+TITLE\s*$
RE_BLOCK_START(ln) ==
    LET s == lstrip(ln)
        n == NonSpaceRun(s)
        r == Drop(s, n)
    IN  IF /\ SECTION_ID(Take(s, n))
           /\ SpaceRun(r) >= 1
           /\ rstrip(lstrip(r)) = <<TITLE>>
        THEN [ok |-> TRUE, section |-> Take(s, n)]
        ELSE NoMatch

\* RE_DIMENSION on one line:
\* ^\s*Tabelle\s+\d+\s*:\s*Dimension\s+(?P<dimension>.+?)\s*$
RE_DIMENSION(ln) ==
    LET a == EatWords(lstrip(ln), <<"Tabelle">>)
        n == lstrip(a[2])
        d == DigitRun(n)
        c == lstrip(Drop(n, d))
        b == IF c # <<>> /\ c[1] = ":"
             THEN EatWords(lstrip(Tail(c)), <<"Dimension">>)
             ELSE <<FALSE, <<>>>>
        w == SpaceRun(b[2])
        r == Drop(b[2], w)
    IN  IF /\ a[1] /\ SpaceRun(a[2]) >= 1 /\ d >= 1
           /\ b[1] /\ w >= 1 /\ (r # <<>> \/ w >= 2)
        THEN [ok |-> TRUE, dimension |-> r]
        ELSE NoMatch

\* RE_TABLE_HEADER_DESC on one line: ^\s*Code\s+Beschreibung\s+Betrag\s+\(EUR\)\s*$
RE_TABLE_HEADER_DESC(ln) ==
    LET m == EatWords(lstrip(ln), <<"Code", "Beschreibung", "Betrag", "(EUR)">>)
    IN  m[1] /\ strip(m[2]) = <<>>

\* RE_TABLE_HEADER_AMT on one line: ^\s*Code\s+Betrag\s+\(EUR\)\s*$
RE_TABLE_HEADER_AMT(ln) ==
    LET m == EatWords(lstrip(ln), <<"Code", "Betrag", "(EUR)">>)
    IN  m[1] /\ strip(m[2]) = <<>>

\* _looks_like_new_table_marker(s): re.match of
\* ^\s*(Tabelle\s+\d+|Dimension\s+\d+|Code\s+Beschreibung\s+Betrag|Code\s+Betrag\s+\(EUR\))
looks_like_new_table_marker(ln) ==
    LET s == lstrip(ln)
        KwNumber(kw) ==
            LET m == EatWords(s, <<kw>>)
            IN  m[1] /\ SpaceRun(m[2]) >= 1 /\ DigitRun(lstrip(m[2])) >= 1
    IN  \/ KwNumber("Tabelle")
        \/ KwNumber("Dimension")
        \/ EatWords(s, <<"Code", "Beschreibung", "Betrag">>)[1]
        \/ EatWords(s, <<"Code", "Betrag", "(EUR)">>)[1]

-----------------------------------------------------------------------------
(* Helpers (src/parser.py, "Helpers") *)

\* The value of a string of digits.
RECURSIVE DigitsValue(_)
DigitsValue(s) ==
    IF s = <<>> THEN 0
    ELSE 10 * DigitsValue(Take(s, Len(s) - 1)) + DigitVal(s[Len(s)])

\* float(s), in hundredths, for s = digits with an optional "." and digits
\* after it: exact for up to two digits after the point, which is all the
\* amount pattern admits (a longer fraction is cut to hundredths).  NaN
\* stands for the ValueError of any other string over the symbols of this
\* model (signs, exponents and "inf" are no symbols here).
ParseFloat(s) ==
    LET d == DigitRun(s)
        f == Drop(s, d)
        frac == IF f # <<>> THEN Tail(f) ELSE <<>>
    IN  IF /\ f = <<>> \/ f[1] = "."
           /\ AllDigits(frac)
           /\ d + Len(frac) >= 1
        THEN 100 * DigitsValue(Take(s, d))
             + (CASE Len(frac) = 0 -> 0
                  [] Len(frac) = 1 -> 10 * DigitsValue(frac)
                  [] OTHER -> DigitsValue(Take(frac, 2)))
        ELSE NaN

\* _norm_amount(s)
norm_amount(s) ==
    LET a == Replace(Replace(Replace(strip(s), ".", <<>>), " ", <<>>), "NBSP", <<>>)
        b == Replace(a, ",", <<".">>)
    IN  ParseFloat(b)

\* _looks_like_valid_amount with the threshold a digit short.
looks_like_valid_amount_100(s) ==
    IF \E k \in 1..Len(s) : s[k] = "." THEN TRUE
    ELSE LET v == ParseFloat(Replace(s, ",", <<".">>))
         IN  v # NaN /\ v >= 100 * 100

\* _looks_like_valid_amount(s)
looks_like_valid_amount(s) ==
    IF \E k \in 1..Len(s) : s[k] = "." THEN TRUE
    ELSE LET v == ParseFloat(Replace(s, ",", <<".">>))
         IN  v # NaN /\ v >= 1000 * 100

\* s.split("/")
RECURSIVE SplitSlash(_, _)
SplitSlash(s, acc) ==
    IF s = <<>> THEN <<acc>>
    ELSE IF s[1] = "/" THEN <<acc>> \o SplitSlash(Tail(s), <<>>)
    ELSE SplitSlash(Tail(s), Append(acc, s[1]))

RECURSIVE StripNonEmpty(_)
StripNonEmpty(ps) ==
    IF ps = <<>> THEN <<>>
    ELSE (IF strip(ps[1]) # <<>> THEN <<strip(ps[1])>> ELSE <<>>)
         \o StripNonEmpty(Tail(ps))

\* _split_parts_by_slash(s)
split_parts_by_slash(s) ==
    StripNonEmpty(SplitSlash(Replace(s, "NBSP", <<" ">>), <<>>))

\* _normalise_soft_hyphen(s)
normalise_soft_hyphen(s) == Replace(s, SoftHyphen, <<>>)

\* re.sub(r"\s{2,}", " ", s)
RECURSIVE CollapseSpaces(_)
CollapseSpaces(s) ==
    IF s = <<>> THEN <<>>
    ELSE IF SpaceRun(s) >= 2 THEN <<" ">> \o CollapseSpaces(Drop(s, SpaceRun(s)))
    ELSE <<s[1]>> \o CollapseSpaces(Tail(s))

\* cleaned = [_normalise_soft_hyphen(p.strip()) for p in parts if p.strip()]
RECURSIVE Cleaned(_)
Cleaned(parts) ==
    IF parts = <<>> THEN <<>>
    ELSE (IF strip(parts[1]) # <<>>
          THEN <<normalise_soft_hyphen(strip(parts[1]))>> ELSE <<>>)
         \o Cleaned(Tail(parts))

\* The join loop with no space between two fragments.
RECURSIVE JoinLoop_no_space(_, _)
JoinLoop_no_space(out, rest) ==
    IF rest = <<>> THEN out
    ELSE IF out # <<>> /\ Last(out) = "-"
         THEN JoinLoop_no_space(Take(out, Len(out) - 1) \o rest[1], Tail(rest))
         ELSE JoinLoop_no_space(out \o rest[1], Tail(rest))

\* The join loop joining across a hyphen without dropping the hyphen.
RECURSIVE JoinLoop_keep_hyphen(_, _)
JoinLoop_keep_hyphen(out, rest) ==
    IF rest = <<>> THEN out
    ELSE IF out # <<>> /\ Last(out) = "-"
         THEN JoinLoop_keep_hyphen(out \o rest[1], Tail(rest))
         ELSE JoinLoop_keep_hyphen(out \o <<" ">> \o rest[1], Tail(rest))

\* The loop of _join_desc_parts over cleaned[1:].
RECURSIVE JoinLoop(_, _)
JoinLoop(out, rest) ==
    IF rest = <<>> THEN out
    ELSE IF out # <<>> /\ Last(out) = "-"
         THEN JoinLoop(Take(out, Len(out) - 1) \o rest[1], Tail(rest))
         ELSE JoinLoop(out \o <<" ">> \o rest[1], Tail(rest))

\* _join_desc_parts(parts)
join_desc_parts(parts) ==
    IF parts = <<>> THEN <<>>
    ELSE LET cleaned == Cleaned(parts)
         IN  IF cleaned = <<>> THEN <<>>
             ELSE strip(CollapseSpaces(JoinLoop(cleaned[1], Tail(cleaned))))

-----------------------------------------------------------------------------
(* Block extraction *)

\* The indices k >= from of the lines of ls on which pattern Match matches,
\* in increasing order (re.finditer over the text).
RECURSIVE FindIter(_, _, _)
FindIter(Match(_), ls, from) ==
    IF from > Len(ls) THEN <<>>
    ELSE (IF Match(ls[from]) THEN <<from>> ELSE <<>>)
         \o FindIter(Match, ls, from + 1)

IsBlockStart(ln) == RE_BLOCK_START(ln).ok
IsDimension(ln) == RE_DIMENSION(ln).ok

\* _extract_blocks with every block running to the end of the text.
extract_blocks_to_end(text) ==
    LET starts == FindIter(IsBlockStart, text, 1)
    IN  [idx \in 1..Len(starts) |->
            [section |-> strip(RE_BLOCK_START(text[starts[idx]]).section),
             text |-> SubSeq(text, starts[idx], Len(text))]]

\* _extract_blocks(full_text)
extract_blocks(text) ==
    LET starts == FindIter(IsBlockStart, text, 1)
    IN  [idx \in 1..Len(starts) |->
            LET start_idx == starts[idx]
                end_idx == IF idx + 1 <= Len(starts) THEN starts[idx + 1]
                           ELSE Len(text) + 1
            IN  [section |-> strip(RE_BLOCK_START(text[start_idx]).section),
                 text |-> SubSeq(text, start_idx, end_idx - 1)]]

-----------------------------------------------------------------------------
(* Context extraction *)

\* lines = [ln.strip().replace(" ", " ") for ln in ... if ln.strip()]
RECURSIVE ContextLines(_)
ContextLines(ls) ==
    IF ls = <<>> THEN <<>>
    ELSE (IF strip(ls[1]) # <<>>
          THEN <<Replace(strip(ls[1]), "NBSP", <<" ">>)>> ELSE <<>>)
         \o ContextLines(Tail(ls))

\* re.search(kws[1]\s+...\s+kws[n]\s+(.+), s): the group of the leftmost
\* match, or None.  (The context words occur in one spelling here, so
\* re.IGNORECASE matches nothing more.)
RECURSIVE SearchAfterWords(_, _)
SearchAfterWords(s, kws) ==
    IF s = <<>> THEN None
    ELSE LET m == EatWords(s, kws)
             w == SpaceRun(m[2])
             r == Drop(m[2], w)
         IN  IF m[1] /\ w >= 1 /\ (r # <<>> \/ w >= 2)
             THEN (IF r # <<>> THEN r ELSE <<Last(m[2])>>)
             ELSE SearchAfterWords(Tail(s), kws)

\* re.match(r"^(Tabelle|Dimension|Code)\b", nxt)
StartsLikeTable(nxt) ==
    /\ nxt # <<>>
    /\ nxt[1] \in {"Tabelle", "Dimension", "Code"}
    /\ Len(nxt) = 1 \/ nxt[2] \in NonWord

\* The parts of the priority line after the optional merge of the next line.
ContextParts(ls, idx) ==
    LET candidate == ls[idx]
        parts == split_parts_by_slash(candidate)
    IN  IF /\ Len(parts) < 3
           /\ idx + 1 <= Len(ls)
           /\ ~StartsLikeTable(ls[idx + 1])
        THEN split_parts_by_slash(candidate \o <<" ", "/", " ">> \o ls[idx + 1])
        ELSE parts

EmptyContext ==
    [Prioritaet |-> None, Ziel |-> None, Funding |-> None, Scope |-> <<>>]

\* _extract_context with the scope unset until a fourth segment sets it.
extract_context_scope_unset(block_text) ==
    LET ls == ContextLines(block_text)
        HasPrio(ln) == \E k \in 1..Len(ln) : ln[k] = "Priorität"
        found == FindIter(HasPrio, ls, 1)
    IN  IF found = <<>> THEN [EmptyContext EXCEPT !.Scope = None]
        ELSE LET parts == ContextParts(ls, found[1])
                 p == IF Len(parts) >= 2
                      THEN SearchAfterWords(parts[1], <<"Priorität">>) ELSE None
                 z == IF Len(parts) >= 2
                      THEN SearchAfterWords(parts[2], <<"Spezifisches", "Ziel">>)
                      ELSE None
             IN  [Prioritaet |-> IF p # None THEN strip(p) ELSE None,
                  Ziel |-> IF z # None THEN strip(z) ELSE None,
                  Funding |-> IF Len(parts) >= 3 THEN parts[3] ELSE None,
                  Scope |-> IF Len(parts) >= 4 THEN parts[4] ELSE None]

\* _extract_context(block_text)
extract_context(block_text) ==
    LET ls == ContextLines(block_text)
        HasPrio(ln) == \E k \in 1..Len(ln) : ln[k] = "Priorität"
        found == FindIter(HasPrio, ls, 1)
    IN  IF found = <<>> THEN EmptyContext
        ELSE LET parts == ContextParts(ls, found[1])
                 p == IF Len(parts) >= 2
                      THEN SearchAfterWords(parts[1], <<"Priorität">>) ELSE None
                 z == IF Len(parts) >= 2
                      THEN SearchAfterWords(parts[2], <<"Spezifisches", "Ziel">>)
                      ELSE None
             IN  [Prioritaet |-> IF p # None THEN strip(p) ELSE None,
                  Ziel |-> IF z # None THEN strip(z) ELSE None,
                  Funding |-> IF Len(parts) >= 3 THEN parts[3] ELSE None,
                  Scope |-> IF Len(parts) >= 4 THEN parts[4] ELSE <<>>]

-----------------------------------------------------------------------------
(* Row extraction *)

NoHeader == [found |-> FALSE]

\* _find_table_header falling back to the whole local text when there is
\* no header (partial extraction).
find_table_header_lenient(local_text) ==
    LET m1 == FindIter(RE_TABLE_HEADER_DESC, local_text, 1)
        m2 == FindIter(RE_TABLE_HEADER_AMT, local_text, 1)
    IN  IF m1 # <<>> THEN [found |-> TRUE, type |-> "desc", start |-> m1[1]]
        ELSE IF m2 # <<>> THEN [found |-> TRUE, type |-> "amt", start |-> m2[1]]
        ELSE [found |-> TRUE, type |-> "none", start |-> 0]

\* _find_table_header(local_text): start is the number of lines of
\* local_text up to and including the header line.
find_table_header(local_text) ==
    LET m1 == FindIter(RE_TABLE_HEADER_DESC, local_text, 1)
        m2 == FindIter(RE_TABLE_HEADER_AMT, local_text, 1)
    IN  IF m1 # <<>> THEN [found |-> TRUE, type |-> "desc", start |-> m1[1]]
        ELSE IF m2 # <<>> THEN [found |-> TRUE, type |-> "amt", start |-> m2[1]]
        ELSE NoHeader

\* local_text = block_text[dim_start:local_end] for the marker on line k of
\* the block: the lines after the marker up to the next marker or the end.
LocalText(block_text, k) ==
    LET next_dim == FindIter(IsDimension, block_text, k + 1)
        local_end == IF next_dim # <<>> THEN next_dim[1] ELSE Len(block_text) + 1
    IN  SubSeq(block_text, k + 1, local_end - 1)

\* lines = [ln.rstrip() for ln in local_text[local_start:].splitlines()
\*          if ln.strip() != ""]
RECURSIVE TableLines(_)
TableLines(ls) ==
    IF ls = <<>> THEN <<>>
    ELSE (IF strip(ls[1]) # <<>> THEN <<rstrip(ls[1])>> ELSE <<>>)
         \o TableLines(Tail(ls))

\* The row state at the start of a table (lines 235-237) with the rows of
\* the block so far.
RowState(code, parts, amt, rs) ==
    [curr_code |-> code, desc_parts |-> parts, pending_amt |-> amt, rows |-> rs]

\* emit_row under the policy "a row without an amount is never emitted".
emit_row_discard(st, env) ==
    IF st.curr_code = None THEN st
    ELSE IF st.pending_amt = None THEN RowState(None, <<>>, None, st.rows)
    ELSE LET row ==
               [Section |-> env.section_id,
                Prioritaet |-> env.ctx.Prioritaet,
                Ziel |-> env.ctx.Ziel,
                Funding |-> env.ctx.Funding,
                Scope |-> env.ctx.Scope,
                Dimension |-> env.dimension_label,
                Code |-> st.curr_code,
                Beschreibung |-> join_desc_parts(st.desc_parts),
                Betrag |-> norm_amount(st.pending_amt)]
         IN  RowState(None, <<>>, None, Append(st.rows, row))

\* emit_row(reason); env holds the variables the closure reads:
\* section_id, ctx, dimension_label.
emit_row(st, env) ==
    IF st.curr_code = None THEN st
    ELSE LET row ==
               [Section |-> env.section_id,
                Prioritaet |-> env.ctx.Prioritaet,
                Ziel |-> env.ctx.Ziel,
                Funding |-> env.ctx.Funding,
                Scope |-> env.ctx.Scope,
                Dimension |-> env.dimension_label,
                Code |-> st.curr_code,
                Beschreibung |-> join_desc_parts(st.desc_parts),
                Betrag |-> IF st.pending_amt # None
                           THEN norm_amount(st.pending_amt) ELSE NaN]
         IN  RowState(None, <<>>, None, Append(st.rows, row))

\* Lines 267-278: the assignments of a code line, after emit_row("new_code").
code_line(st, mcode) ==
    LET rest == strip(mcode.rest)
        trailing == RE_AMOUNT_TRAILING(rest)
    IN  IF trailing.ok /\ looks_like_valid_amount(trailing.amt)
        THEN LET before == strip(Take(rest, trailing.start))
             IN  RowState(mcode.code,
                          IF before # <<>> THEN <<before>> ELSE <<>>,
                          trailing.amt, st.rows)
        ELSE RowState(mcode.code,
                      IF rest # <<>> THEN <<rest>> ELSE <<>>,
                      None, st.rows)

\* An amount-only line that closes the row at once (commit on a standalone
\* amount).
amount_only_line_commit(st, amt_str, env) ==
    IF looks_like_valid_amount(amt_str)
    THEN emit_row([st EXCEPT !.pending_amt = amt_str], env)
    ELSE emit_row(st, env)

\* An amount-only line where a small bare number discards the open row
\* instead of emitting it.
amount_only_line_drop_small(st, amt_str, env) ==
    IF looks_like_valid_amount(amt_str)
    THEN [st EXCEPT !.pending_amt = amt_str]
    ELSE RowState(None, <<>>, None, st.rows)

\* An amount-only line that keeps the amount the row already has.
amount_only_line_keep_first(st, amt_str, env) ==
    IF looks_like_valid_amount(amt_str)
    THEN (IF st.pending_amt = None THEN [st EXCEPT !.pending_amt = amt_str] ELSE st)
    ELSE emit_row(st, env)

\* Lines 285-291: an amount-only line while a row is open.
amount_only_line(st, amt_str, env) ==
    IF looks_like_valid_amount(amt_str)
    THEN [st EXCEPT !.pending_amt = amt_str]
    ELSE emit_row(st, env)

\* The loop body without emit_row("new_code"): a new code line overwrites
\* the open row.
loop_body_no_flush(st, ln, env) ==
    LET mcode == RE_CODE_LINE(ln)
        mamt == RE_AMOUNT_ONLY(ln)
    IN  IF mcode.ok THEN code_line(st, mcode)
        ELSE IF mamt.ok /\ st.curr_code # None
             THEN amount_only_line(st, mamt.amt, env)
        ELSE IF PAGE_NUMBER_LIKE(ln) THEN emit_row(st, env)
        ELSE IF looks_like_new_table_marker(ln) THEN emit_row(st, env)
        ELSE IF st.curr_code # None
             THEN [st EXCEPT !.desc_parts = Append(@, strip(ln))]
        ELSE st

\* The loop body committing a code line that carries its amount at once.
loop_body_commit_inline(st, ln, env) ==
    LET mcode == RE_CODE_LINE(ln)
        mamt == RE_AMOUNT_ONLY(ln)
        opened == code_line(emit_row(st, env), mcode)
    IN  IF mcode.ok
        THEN (IF opened.pending_amt # None THEN emit_row(opened, env) ELSE opened)
        ELSE IF mamt.ok /\ st.curr_code # None
             THEN amount_only_line(st, mamt.amt, env)
        ELSE IF PAGE_NUMBER_LIKE(ln) THEN emit_row(st, env)
        ELSE IF looks_like_new_table_marker(ln) THEN emit_row(st, env)
        ELSE IF st.curr_code # None
             THEN [st EXCEPT !.desc_parts = Append(@, strip(ln))]
        ELSE st

\* The loop body taking a table/header marker for a wrapped description
\* line.
loop_body_marker_as_text(st, ln, env) ==
    LET mcode == RE_CODE_LINE(ln)
        mamt == RE_AMOUNT_ONLY(ln)
    IN  IF mcode.ok THEN code_line(emit_row(st, env), mcode)
        ELSE IF mamt.ok /\ st.curr_code # None
             THEN amount_only_line(st, mamt.amt, env)
        ELSE IF PAGE_NUMBER_LIKE(ln) THEN emit_row(st, env)
        ELSE IF st.curr_code # None
             THEN [st EXCEPT !.desc_parts = Append(@, strip(ln))]
        ELSE st

\* The loop body remembering a standalone amount also when no row is open
\* (line 283 without `curr_code is not None`).
loop_body_amount_without_code(st, ln, env) ==
    LET mcode == RE_CODE_LINE(ln)
        mamt == RE_AMOUNT_ONLY(ln)
    IN  IF mcode.ok THEN code_line(emit_row(st, env), mcode)
        ELSE IF mamt.ok
             THEN amount_only_line(st, mamt.amt, env)
        ELSE IF PAGE_NUMBER_LIKE(ln) THEN emit_row(st, env)
        ELSE IF looks_like_new_table_marker(ln) THEN emit_row(st, env)
        ELSE IF st.curr_code # None
             THEN [st EXCEPT !.desc_parts = Append(@, strip(ln))]
        ELSE st

\* Lines 261-312: one iteration of the while loop, on line ln.
loop_body(st, ln, env) ==
    LET mcode == RE_CODE_LINE(ln)
        mamt == RE_AMOUNT_ONLY(ln)
    IN  IF mcode.ok THEN code_line(emit_row(st, env), mcode)
        ELSE IF mamt.ok /\ st.curr_code # None
             THEN amount_only_line(st, mamt.amt, env)
        ELSE IF PAGE_NUMBER_LIKE(ln) THEN emit_row(st, env)
        ELSE IF looks_like_new_table_marker(ln) THEN emit_row(st, env)
        ELSE IF st.curr_code # None
             THEN [st EXCEPT !.desc_parts = Append(@, strip(ln))]
        ELSE st

-----------------------------------------------------------------------------
(* The pipeline as a state machine: parse_pdf_text and _rows_from_block.   *)
(* pc: "start"  before _extract_blocks                                     *)
(*     "blocks" at the head of `for b in blocks`                           *)
(*     "tables" at the head of `for di, dim_match in enumerate(dims)`      *)
(*     "line"   at the head of `while i < len(lines)`                      *)
(*     "done"   parse_pdf_text has returned                                *)

Env == [section_id |-> blocks[bi].section, ctx |-> ctx,
        dimension_label |-> dimension_label]

State == RowState(curr_code, desc_parts, pending_amt, rows)

SetState(st) ==
    /\ curr_code' = st.curr_code
    /\ desc_parts' = st.desc_parts
    /\ pending_amt' = st.pending_amt
    /\ rows' = st.rows

InitWith(Docs) ==
    /\ full_text \in Docs
    /\ pc = "start"
    /\ blocks = <<>>
    /\ bi = 0
    /\ ctx = EmptyContext
    /\ dims = <<>>
    /\ di = 0
    /\ dimension_label = <<>>
    /\ lines = <<>>
    /\ i = 0
    /\ curr_code = None
    /\ desc_parts = <<>>
    /\ pending_amt = None
    /\ rows = <<>>
    /\ all_rows = <<>>
    /\ files = <<>>
    /\ fi = 0
    /\ text_parts = <<>>
    /\ page = 0
    /\ miner_calls = 0
    /\ frames = <<>>
    /\ warnings = <<>>
    /\ batch = <<>>
    /\ fragments = <<>>
    /\ joined = <<>>

\* parse_pdf_text, line 323: blocks = _extract_blocks(full_text)
ExtractBlocks ==
    /\ pc = "start"
    /\ blocks' = extract_blocks(full_text)
    /\ pc' = "blocks"
    /\ UNCHANGED <<full_text, bi, ctx, dims, di, dimension_label, lines, i,
                   curr_code, desc_parts, pending_amt, rows, all_rows>>
    /\ UNCHANGED appvars
    /\ UNCHANGED callvars

\* parse_pdf_text computing the context once, for the first block, and
\* keeping it for the blocks that follow.
NextBlock_stale_ctx ==
    /\ pc = "blocks"
    /\ bi < Len(blocks)
    /\ bi' = bi + 1
    /\ rows' = <<>>
    /\ ctx' = IF bi = 0 THEN extract_context(blocks[bi + 1].text) ELSE ctx
    /\ dims' = FindIter(IsDimension, blocks[bi + 1].text, 1)
    /\ di' = 0
    /\ pc' = "tables"
    /\ UNCHANGED <<full_text, blocks, dimension_label, lines, i, curr_code,
                   desc_parts, pending_amt, all_rows>>
    /\ UNCHANGED appvars
    /\ UNCHANGED callvars

\* Lines 325-327 and 210-213: the next block; rows = [], ctx, dims.
NextBlock ==
    /\ pc = "blocks"
    /\ bi < Len(blocks)
    /\ bi' = bi + 1
    /\ rows' = <<>>
    /\ ctx' = extract_context(blocks[bi + 1].text)
    /\ dims' = FindIter(IsDimension, blocks[bi + 1].text, 1)
    /\ di' = 0
    /\ pc' = "tables"
    /\ UNCHANGED <<full_text, blocks, dimension_label, lines, i, curr_code,
                   desc_parts, pending_amt, all_rows>>
    /\ UNCHANGED appvars
    /\ UNCHANGED callvars

\* Lines 216-237: the next dimension marker; a table with no header is
\* skipped (continue), otherwise the row loop starts on its lines.
NextTable ==
    /\ pc = "tables"
    /\ di < Len(dims)
    /\ di' = di + 1
    /\ LET block_text == blocks[bi].text
           k == dims[di + 1]
           local_text == LocalText(block_text, k)
           header == find_table_header(local_text)
       IN  /\ dimension_label' = strip(RE_DIMENSION(block_text[k]).dimension)
           /\ IF ~header.found
              THEN /\ pc' = "tables"
                   /\ UNCHANGED <<lines, i, curr_code, desc_parts, pending_amt>>
              ELSE /\ lines' = TableLines(Drop(local_text, header.start))
                   /\ i' = 0
                   /\ curr_code' = None
                   /\ desc_parts' = <<>>
                   /\ pending_amt' = None
                   /\ pc' = "line"
    /\ UNCHANGED <<full_text, blocks, bi, ctx, dims, rows, all_rows>>
    /\ UNCHANGED appvars
    /\ UNCHANGED callvars

\* Lines 260-312: one iteration of the while loop.
LineStep ==
    /\ pc = "line"
    /\ i < Len(lines)
    /\ SetState(loop_body(State, lines[i + 1], Env))
    /\ i' = i + 1
    /\ UNCHANGED <<full_text, pc, blocks, bi, ctx, dims, di, dimension_label,
                   lines, all_rows>>
    /\ UNCHANGED appvars
    /\ UNCHANGED callvars

\* The end of a table without the final flush.
TableEnd_no_flush ==
    /\ pc = "line"
    /\ i >= Len(lines)
    /\ pc' = "tables"
    /\ UNCHANGED <<full_text, blocks, bi, ctx, dims, di, dimension_label,
                   lines, i, curr_code, desc_parts, pending_amt, rows, all_rows>>
    /\ UNCHANGED appvars
    /\ UNCHANGED callvars

\* Lines 314-315: emit_row("table_end")
TableEnd ==
    /\ pc = "line"
    /\ i >= Len(lines)
    /\ SetState(emit_row(State, Env))
    /\ pc' = "tables"
    /\ UNCHANGED <<full_text, blocks, bi, ctx, dims, di, dimension_label,
                   lines, i, all_rows>>
    /\ UNCHANGED appvars
    /\ UNCHANGED callvars

\* Lines 318 and 327: return rows; all_rows.extend(rows)
BlockEnd ==
    /\ pc = "tables"
    /\ di >= Len(dims)
    /\ all_rows' = all_rows \o rows
    /\ pc' = "blocks"
    /\ UNCHANGED <<full_text, blocks, bi, ctx, dims, di, dimension_label,
                   lines, i, curr_code, desc_parts, pending_amt, rows>>
    /\ UNCHANGED appvars
    /\ UNCHANGED callvars

\* Lines 328-347: the records in order, as the returned frame.
Return ==
    /\ pc = "blocks"
    /\ bi >= Len(blocks)
    /\ pc' = "done"
    /\ UNCHANGED <<full_text, blocks, bi, ctx, dims, di, dimension_label,
                   lines, i, curr_code, desc_parts, pending_amt, rows, all_rows>>
    /\ UNCHANGED appvars
    /\ UNCHANGED callvars

Next ==
    \/ ExtractBlocks
    \/ NextBlock
    \/ NextTable
    \/ LineStep
    \/ TableEnd
    \/ BlockEnd
    \/ Return

-----------------------------------------------------------------------------
(* Documents *)

\* Lines of a document.
HeadingLine(id) == id \o <<" ", TITLE>>
ContextLine == <<"Priorität", " ", "1", " ", "/", " ", "Spezifisches", " ", "Ziel",
                 " ", "RSO1", " ", "/", " ", "EFRE", " ", "/", " ", "Übergang">>
DimensionLine(n, label) ==
    <<"Tabelle", " ", n, ":", " ", "Dimension", " ">> \o label
HeaderDesc == <<"Code", " ", "Beschreibung", " ", "Betrag", " ", "(EUR)">>
HeaderAmt == <<"Code", " ", "Betrag", " ", "(EUR)">>

Label1 == <<"1", " ", "-", " ", "Interventionsbereich">>
Label2 == <<"2", " ", "-", " ", "Finanzierungsart">>

\* All sequences over S of length at most n.
SeqsUpTo(S, n) == UNION {[1..k -> S] : k \in 0..n}

\* Lines of a table's row region.
CodeFoo == <<"1", "2", " ", "Foo">>
CodeBarAmount == <<"1", "3", " ", "Bar", " ", "5", ".", "0", "0", "0">>
CodeBazSmall == <<"0", "1", "4", " ", "Baz", " ", "9", "9", "9">>
Amount7500 == <<"7", ".", "5", "0", "0", ",", "0", "0">>
Amount1000Sep == <<"1", ".", "0", "0", "0", " ", "EUR">>
Bare90 == <<"9", "0">>
Bare1000 == <<"1", "0", "0", "0">>
Wrapped == <<" ", "und", " ", "so">>
MarkerLine == <<"Tabelle", " ", "2">>

RowLines == {CodeFoo, CodeBarAmount, CodeBazSmall, Amount7500, Amount1000Sep,
             Bare90, Bare1000, Wrapped, MarkerLine}

\* The longest row region drawn.
MaxLines == 4

Preamble == <<HeadingLine(<<"2", ".", "1">>), ContextLine,
              DimensionLine("1", Label1), HeaderDesc>>

\* One block with one table whose row region is any sequence of RowLines.
RowDocs == {Preamble \o body : body \in SeqsUpTo(RowLines, MaxLines)}

Init == InitWith(RowDocs)

Spec == Init /\ [][Next]_vars

\* Documents with up to two blocks, up to two tables per block, tables
\* with and without a header, and text before the first heading.
ContextLine2 == <<"Priorität", " ", "2", " ", "/", " ", "Spezifisches", " ", "Ziel",
                  " ", "RSO2", " ", "/", " ", "ESF">>

Table(n, label, hdr, body) == <<DimensionLine(n, label)>> \o hdr \o body

Headers == {<<>>, <<HeaderDesc>>, <<HeaderAmt>>}

DocRowLines == {CodeBarAmount, CodeFoo, Amount7500}

\* The longest row region of a first table.
MaxBodyLines == 2

FirstTables ==
    {Table("1", Label1, h, b) : h \in Headers, b \in SeqsUpTo(DocRowLines, MaxBodyLines)}

SecondBodies == {<<>>, <<Amount7500>>, <<Wrapped, Amount1000Sep>>,
                 <<CodeBazSmall, Amount1000Sep>>}

SecondTables == {Table("2", Label2, h, b) : h \in Headers, b \in SecondBodies}

Prefaces == {<<>>, <<Wrapped, CodeBarAmount>>}

BlockHead1 == <<HeadingLine(<<"2", ".", "1">>), ContextLine>>
BlockHead2 == <<HeadingLine(<<"2", ".", "A", ".", "1">>), ContextLine2>>

StructuredDocs ==
    \* no heading at all
    {p \o t : p \in Prefaces, t \in FirstTables}
    \cup
    \* one block with one or two tables
    {p \o BlockHead1 \o t1 \o t2 :
        p \in Prefaces, t1 \in FirstTables, t2 \in SecondTables \cup {<<>>}}
    \cup
    \* two blocks with one table each
    {p \o BlockHead1 \o t1 \o BlockHead2 \o t2 :
        p \in Prefaces, t1 \in FirstTables, t2 \in SecondTables}

InitDoc == InitWith(StructuredDocs)

SpecDoc == InitDoc /\ [][Next]_vars

\* Documents of one block whose priority line holds the priority segment
\* and up to MaxMoreSegments further segments (some of them empty),
\* followed or not by a line that can be merged into it.
SegPrio == <<"Priorität", " ", "1">>
SegZiel == <<"Spezifisches", " ", "Ziel", " ", "RSO1">>
SegFund == <<"EFRE", "NBSP", "Plus">>
SegScope == <<"Übergang">>
SegChoices == {SegZiel, SegFund, SegScope, <<>>}

\* The most segments that follow the priority segment on its line.
MaxMoreSegments == 4

RECURSIVE JoinSlash(_)
JoinSlash(segs) ==
    IF segs = <<>> THEN <<>>
    ELSE IF Len(segs) = 1 THEN segs[1]
    ELSE segs[1] \o <<" ", "/", " ">> \o JoinSlash(Tail(segs))

PriorityLines ==
    {JoinSlash(<<SegPrio>> \o more) : more \in SeqsUpTo(SegChoices, MaxMoreSegments)}

\* What stands between the priority line and the dimension marker.
FollowingLines ==
    {<<>>,
     <<JoinSlash(<<SegZiel, SegFund>>)>>,
     <<JoinSlash(<<SegFund, SegScope>>)>>,
     <<JoinSlash(<<SegZiel, SegFund, SegScope>>)>>,
     <<Wrapped>>}

ContextTable == Table("1", Label1, <<HeaderDesc>>, <<CodeBarAmount>>)

ContextDocs ==
    {<<HeadingLine(<<"2", ".", "1">>), p>> \o f \o ContextTable :
        p \in PriorityLines, f \in FollowingLines}
    \cup
    \* no priority line
    {<<HeadingLine(<<"2", ".", "1">>)>> \o f \o ContextTable : f \in FollowingLines}

InitCtx == InitWith(ContextDocs)

SpecCtx == InitCtx /\ [][Next]_vars

\* Documents of one block and one table in which column-header lines of
\* both variants and row lines follow the marker in any order.
HeaderTableLines == {HeaderDesc, HeaderAmt, CodeBarAmount, CodeFoo, Amount7500}

\* The most lines that follow the marker.
MaxTableLines == 4

HeaderDocs ==
    {BlockHead1 \o <<DimensionLine("1", Label1)>> \o body :
        body \in SeqsUpTo(HeaderTableLines, MaxTableLines)}

InitHdr == InitWith(HeaderDocs)

SpecHdr == InitHdr /\ [][Next]_vars

-----------------------------------------------------------------------------
(* Text extraction and the batch: _pdf_to_text and parse_pdf_filelike      *)
(* (src/parser.py), _parse_many (src/app.py).                              *)
(* pc: "files"    at the head of `for f in files`                          *)
(*     "plumber"  in the page loop of the primary extractor (pdfplumber)   *)
(*     "miner"    in the except branch, before the secondary extractor     *)
(*                (pdfminer)                                               *)
(*     "start" .. "done"  in parse_pdf_text, as above                      *)
(*     "finished" _parse_many has returned                                 *)
(* A file is what the two extractors do with it: pages, the outcome of     *)
(* page.extract_text page by page, and miner, the outcome of extract_text. *)
(* An outcome is a text (a sequence of lines, <<>> for ""), NoneText or    *)
(* RaiseText.                                                              *)

\* An extractor returning None, and an extractor raising.
NoneText == <<None>>
RaiseText == <<<<"<raise>">>>>

\* t or ""
OrEmpty(t) == IF t = NoneText THEN <<>> ELSE t

\* "\n".join(text_parts), as its lines: an empty part that is not the last
\* one leaves a blank line.
RECURSIVE JoinPages(_)
JoinPages(parts) ==
    IF parts = <<>> THEN <<>>
    ELSE IF Len(parts) = 1 THEN parts[1]
    ELSE (IF parts[1] = <<>> THEN <<<<>>>> ELSE parts[1])
         \o JoinPages(Tail(parts))

\* The locals of parse_pdf_filelike are gone once it has returned or raised.
DropLocals ==
    /\ full_text' = <<>>
    /\ blocks' = <<>>
    /\ bi' = 0
    /\ ctx' = EmptyContext
    /\ dims' = <<>>
    /\ di' = 0
    /\ dimension_label' = <<>>
    /\ lines' = <<>>
    /\ i' = 0
    /\ curr_code' = None
    /\ desc_parts' = <<>>
    /\ pending_amt' = None
    /\ rows' = <<>>
    /\ all_rows' = <<>>

parservars == <<full_text, blocks, bi, ctx, dims, di, dimension_label, lines,
                i, curr_code, desc_parts, pending_amt, rows, all_rows>>

\* app.py lines 36-38, parser.py lines 349-355 and 33: the next file;
\* parse_pdf_filelike calls _pdf_to_text.
NextFile ==
    /\ pc = "files"
    /\ fi < Len(files)
    /\ fi' = fi + 1
    /\ text_parts' = <<>>
    /\ page' = 0
    /\ miner_calls' = 0
    /\ pc' = "plumber"
    /\ UNCHANGED <<files, frames, warnings, batch>>
    /\ UNCHANGED parservars
    /\ UNCHANGED callvars

\* parser.py lines 37-40: one page of the primary extractor.
PlumberPage ==
    /\ pc = "plumber"
    /\ page < Len(files[fi].pages)
    /\ files[fi].pages[page + 1] # RaiseText
    /\ text_parts' = Append(text_parts, OrEmpty(files[fi].pages[page + 1]))
    /\ page' = page + 1
    /\ UNCHANGED <<pc, files, fi, miner_calls, frames, warnings, batch>>
    /\ UNCHANGED parservars
    /\ UNCHANGED callvars

\* parser.py lines 41-42: the primary extractor raises (on import, on
\* opening the file when it is the first outcome, or on a page).
PlumberRaises ==
    /\ pc = "plumber"
    /\ page < Len(files[fi].pages)
    /\ files[fi].pages[page + 1] = RaiseText
    /\ pc' = "miner"
    /\ UNCHANGED <<files, fi, text_parts, page, miner_calls, frames, warnings,
                   batch>>
    /\ UNCHANGED parservars
    /\ UNCHANGED callvars

\* parser.py lines 54-56 and 356: the primary extractor has read every
\* page; _pdf_to_text returns the joined text to parse_pdf_text.
PlumberDone ==
    /\ pc = "plumber"
    /\ page >= Len(files[fi].pages)
    /\ full_text' = JoinPages(text_parts)
    /\ pc' = "start"
    /\ UNCHANGED <<blocks, bi, ctx, dims, di, dimension_label, lines, i,
                   curr_code, desc_parts, pending_amt, rows, all_rows>>
    /\ UNCHANGED appvars
    /\ UNCHANGED callvars

\* parser.py lines 43-53 and 356: the secondary extractor; its text, or ""
\* when it raises, goes to parse_pdf_text.
Miner ==
    /\ pc = "miner"
    /\ miner_calls' = miner_calls + 1
    /\ full_text' = IF files[fi].miner = RaiseText THEN <<>>
                    ELSE OrEmpty(files[fi].miner)
    /\ pc' = "start"
    /\ UNCHANGED <<blocks, bi, ctx, dims, di, dimension_label, lines, i,
                   curr_code, desc_parts, pending_amt, rows, all_rows>>
    /\ UNCHANGED <<files, fi, text_parts, page, frames, warnings, batch>>
    /\ UNCHANGED callvars

\* app.py lines 38-40: parse_pdf_filelike has returned df; a frame that is
\* not empty is appended.
Collect ==
    /\ pc = "done"
    /\ fi >= 1
    /\ frames' = IF all_rows # <<>> THEN Append(frames, all_rows) ELSE frames
    /\ pc' = "files"
    /\ DropLocals
    /\ UNCHANGED <<files, fi, text_parts, page, miner_calls, warnings, batch>>
    /\ UNCHANGED callvars

\* The except branch written as the end of the batch: the exception leaves
\* _parse_many.
ParseRaises_abort ==
    /\ fi >= 1
    /\ \/ pc = "start"
       \/ pc = "blocks" /\ bi >= Len(blocks)
    /\ warnings' = Append(warnings, fi)
    /\ batch' = <<>>
    /\ pc' = "finished"
    /\ DropLocals
    /\ UNCHANGED <<files, fi, text_parts, page, miner_calls, frames>>
    /\ UNCHANGED callvars

\* app.py lines 41-42: parse_pdf_text raises, at its start or while the
\* frame is built from the rows (parser.py line 328); st.warning, and the
\* loop goes on.
ParseRaises ==
    /\ fi >= 1
    /\ \/ pc = "start"
       \/ pc = "blocks" /\ bi >= Len(blocks)
    /\ warnings' = Append(warnings, fi)
    /\ pc' = "files"
    /\ DropLocals
    /\ UNCHANGED <<files, fi, text_parts, page, miner_calls, frames, batch>>
    /\ UNCHANGED callvars

\* app.py lines 43-47: the empty frame, or the frames laid end to end with
\* the column Keep = True in front.
Finish ==
    /\ pc = "files"
    /\ fi >= Len(files)
    /\ batch' = IF frames = <<>> THEN <<>>
                ELSE LET cat == Concat(frames)
                     IN  [k \in 1..Len(cat) |-> [Keep |-> TRUE] @@ cat[k]]
    /\ pc' = "finished"
    /\ UNCHANGED <<files, fi, text_parts, page, miner_calls, frames, warnings>>
    /\ UNCHANGED parservars
    /\ UNCHANGED callvars

NextApp ==
    \/ NextFile
    \/ PlumberPage
    \/ PlumberRaises
    \/ PlumberDone
    \/ Miner
    \/ ExtractBlocks
    \/ NextBlock
    \/ NextTable
    \/ LineStep
    \/ TableEnd
    \/ BlockEnd
    \/ Return
    \/ Collect
    \/ ParseRaises
    \/ Finish

\* Uploaded files.
TextA == BlockHead1 \o Table("1", Label1, <<HeaderDesc>>, <<CodeBarAmount>>)
TextB == BlockHead2
         \o Table("2", Label2, <<HeaderAmt>>, <<CodeFoo, Amount7500, CodeBazSmall>>)
TextNoHeading == <<Wrapped>>

FileFamily ==
    {[pages |-> <<TextA>>, miner |-> TextB],
     [pages |-> <<BlockHead1, Table("1", Label1, <<HeaderDesc>>, <<CodeBarAmount>>)>>,
      miner |-> RaiseText],
     [pages |-> <<NoneText>>, miner |-> TextB],
     [pages |-> <<>>, miner |-> TextA],
     [pages |-> <<RaiseText>>, miner |-> TextB],
     [pages |-> <<TextA, RaiseText>>, miner |-> NoneText],
     [pages |-> <<RaiseText>>, miner |-> RaiseText],
     [pages |-> <<TextNoHeading, <<>>>>, miner |-> TextA],
     [pages |-> <<<<>>, NoneText>>, miner |-> TextA]}

\* The most files in one batch.
MaxFiles == 2

Batches == SeqsUpTo(FileFamily, MaxFiles)

InitApp ==
    /\ files \in Batches
    /\ pc = "files"
    /\ fi = 0
    /\ text_parts = <<>>
    /\ page = 0
    /\ miner_calls = 0
    /\ frames = <<>>
    /\ warnings = <<>>
    /\ batch = <<>>
    /\ fragments = <<>>
    /\ joined = <<>>
    /\ full_text = <<>>
    /\ blocks = <<>>
    /\ bi = 0
    /\ ctx = EmptyContext
    /\ dims = <<>>
    /\ di = 0
    /\ dimension_label = <<>>
    /\ lines = <<>>
    /\ i = 0
    /\ curr_code = None
    /\ desc_parts = <<>>
    /\ pending_amt = None
    /\ rows = <<>>
    /\ all_rows = <<>>

SpecApp == InitApp /\ [][NextApp]_vars

-----------------------------------------------------------------------------
(* A direct call of _join_desc_parts.                                      *)
(* pc: "join"    before the call                                           *)
(*     "joined"  the call has returned                                     *)

\* Line 108: _join_desc_parts(parts) called and returned.
JoinCall ==
    /\ pc = "join"
    /\ joined' = join_desc_parts(fragments)
    /\ pc' = "joined"
    /\ UNCHANGED fragments
    /\ UNCHANGED parservars
    /\ UNCHANGED appvars

NextJoin == JoinCall

\* Description fragments: words, words ending with a hyphen, hyphens,
\* soft hyphens inside and at the end of a fragment, blank fragments and
\* fragments with whitespace around and within.
Fragments ==
    {<<"a">>,
     <<"b", "-">>,
     <<"-">>,
     <<"-", "-">>,
     <<"SHY">>,
     <<" ">>,
     <<" ", "a", " ", " ", "b", " ">>,
     <<"b", "-", "SHY">>,
     <<"b", "-", " ", "SHY">>,
     <<"c", "SHY", "d">>,
     <<"NBSP", "a", "NBSP", "-", " ">>}

\* The most fragments in one call.
MaxFragments == 3

InitJoin ==
    /\ fragments \in SeqsUpTo(Fragments, MaxFragments)
    /\ joined = None
    /\ pc = "join"
    /\ files = <<>>
    /\ fi = 0
    /\ text_parts = <<>>
    /\ page = 0
    /\ miner_calls = 0
    /\ frames = <<>>
    /\ warnings = <<>>
    /\ batch = <<>>
    /\ full_text = <<>>
    /\ blocks = <<>>
    /\ bi = 0
    /\ ctx = EmptyContext
    /\ dims = <<>>
    /\ di = 0
    /\ dimension_label = <<>>
    /\ lines = <<>>
    /\ i = 0
    /\ curr_code = None
    /\ desc_parts = <<>>
    /\ pending_amt = None
    /\ rows = <<>>
    /\ all_rows = <<>>

SpecJoin == InitJoin /\ [][NextJoin]_vars

-----------------------------------------------------------------------------
(* Vocabulary of the properties: what a line of a row region is, read off  *)
(* the line itself.                                                        *)

HasSeparator(t) == \E k \in 1..Len(t) : t[k] = "."

\* The value, in hundredths, of an amount token d.ddd.ddd[,dd].
AmountValue(t) ==
    LET comma == {k \in 1..Len(t) : t[k] = ","}
        int == IF comma = {} THEN t
               ELSE Take(t, (CHOOSE k \in comma : TRUE) - 1)
        dec == IF comma = {} THEN <<>>
               ELSE Drop(t, CHOOSE k \in comma : TRUE)
    IN  100 * DigitsValue(SelectSeq(int, IsDigit)) + DigitsValue(dec)

\* The amount-validity rule: a thousands separator, or a value >= 1000.
Accepted(t) == HasSeparator(t) \/ AmountValue(t) >= 100000

IsCodeLine(ln) == RE_CODE_LINE(ln).ok

\* The trailing amount token of a code line, whatever its value.
TrailingToken(ln) == RE_AMOUNT_TRAILING(strip(RE_CODE_LINE(ln).rest))

\* A code line that carries a valid trailing amount.
HasInlineAmount(ln) ==
    /\ IsCodeLine(ln)
    /\ TrailingToken(ln).ok
    /\ Accepted(TrailingToken(ln).amt)

\* A standalone line that is a valid amount.
IsAmountLine(ln) ==
    /\ ~IsCodeLine(ln)
    /\ RE_AMOUNT_ONLY(ln).ok
    /\ Accepted(RE_AMOUNT_ONLY(ln).amt)

\* A boundary line for an open row: a small bare number, a page number or
\* a table/header marker.
IsBoundaryLine(ln) ==
    /\ ~IsCodeLine(ln)
    /\ ~IsAmountLine(ln)
    /\ \/ RE_AMOUNT_ONLY(ln).ok
       \/ PAGE_NUMBER_LIKE(ln)
       \/ looks_like_new_table_marker(ln)

\* A wrapped description line.
IsTextLine(ln) == ~IsCodeLine(ln) /\ ~IsAmountLine(ln) /\ ~IsBoundaryLine(ln)

\* A row is open and the next step closes it: the next line is a code line
\* or a boundary line, or the line sequence has ended.
Closing ==
    /\ pc = "line"
    /\ curr_code # None
    /\ \/ i >= Len(lines)
       \/ IsCodeLine(lines[i + 1])
       \/ IsBoundaryLine(lines[i + 1])

\* The code line of the open row: the last code line among lines[1..i].
RowStart ==
    CHOOSE j \in 1..i :
        IsCodeLine(lines[j]) /\ \A k \in (j + 1)..i : ~IsCodeLine(lines[k])

\* The standalone valid-amount lines of the open row, by index.
OpenAmountLines == {j \in (RowStart + 1)..i : IsAmountLine(lines[j])}

\* A valid amount was observed for the open row.
AmountObserved == HasInlineAmount(lines[RowStart]) \/ OpenAmountLines # {}

-----------------------------------------------------------------------------
(* C1 *)

\* C1 as stated: every emitted record has a valid amount, never the NaN
\* sentinel.
C1_NeverNaN == \A k \in 1..Len(rows) : rows[k].Betrag # NaN

\* C1 amended: every row that is closed (by a new code line, a boundary line
\* or the end of the line sequence) is emitted as one record, and the
\* record's amount is the NaN sentinel exactly when no valid amount was
\* observed for the row.
C1_EmittedWithNaNIffNoAmount ==
    [][Closing =>
          /\ Len(rows') = Len(rows) + 1
          /\ Last(rows').Code = curr_code
          /\ (Last(rows').Betrag = NaN) <=> ~AmountObserved]_vars

\* A row without an amount and a row with one have both been emitted.
C1_Witness ==
    /\ pc = "done"
    /\ \E k \in 1..Len(all_rows) : all_rows[k].Betrag = NaN
    /\ \E k \in 1..Len(all_rows) : all_rows[k].Betrag # NaN

-----------------------------------------------------------------------------
(* C2 *)

\* The line just read is a code line that directly follows a code line with
\* no amount / the next line to read is such a line.
CodeAfterBareCode(k) ==
    /\ k >= 2
    /\ k <= Len(lines)
    /\ IsCodeLine(lines[k - 1])
    /\ ~HasInlineAmount(lines[k - 1])
    /\ IsCodeLine(lines[k])

\* C2 as stated: a code line with no amount that is directly followed by
\* another code line produces zero records: reading the second code line
\* emits nothing.
C2_FirstCodeDiscarded ==
    [][(pc = "line" /\ CodeAfterBareCode(i + 1)) => rows' = rows]_vars

\* C2 amended: a code line with no amount that is directly followed by
\* another code line produces exactly one record for the first code, emitted
\* when the second code line is read, with the NaN sentinel as its amount.
C2_FirstCodeEmittedWithNaN ==
    [][(pc = "line" /\ CodeAfterBareCode(i + 1)) =>
          /\ Len(rows') = Len(rows) + 1
          /\ Take(rows', Len(rows)) = rows
          /\ Last(rows').Code = RE_CODE_LINE(lines[i]).code
          /\ Last(rows').Betrag = NaN
          /\ curr_code' = RE_CODE_LINE(lines[i + 1]).code]_vars

\* The second of two adjacent code lines has been read and the first one's
\* record is there, with no amount.
C2_Witness ==
    /\ pc = "line"
    /\ CodeAfterBareCode(i)
    /\ rows # <<>>
    /\ Last(rows).Code = RE_CODE_LINE(lines[i - 1]).code
    /\ Last(rows).Betrag = NaN

-----------------------------------------------------------------------------
(* C3 *)

\* The description fragments the open row has collected: the text before
\* the inline amount (or the whole tail), then its wrapped lines.
RECURSIVE TextLinesOf(_)
TextLinesOf(ls) ==
    IF ls = <<>> THEN <<>>
    ELSE (IF IsTextLine(ls[1]) THEN <<strip(ls[1])>> ELSE <<>>)
         \o TextLinesOf(Tail(ls))

FirstFragment(ln) ==
    LET rest == strip(RE_CODE_LINE(ln).rest)
        before == IF HasInlineAmount(ln)
                  THEN strip(Take(rest, TrailingToken(ln).start)) ELSE rest
    IN  IF before # <<>> THEN <<before>> ELSE <<>>

OpenFragments ==
    FirstFragment(lines[RowStart]) \o TextLinesOf(SubSeq(lines, RowStart + 1, i))

\* The amount of the open row: that of its last standalone amount line, or
\* else its inline amount.
OpenAmount ==
    IF OpenAmountLines # {}
    THEN LET j == CHOOSE j \in OpenAmountLines : \A k \in OpenAmountLines : k <= j
         IN  AmountValue(RE_AMOUNT_ONLY(lines[j]).amt)
    ELSE IF HasInlineAmount(lines[RowStart])
         THEN AmountValue(TrailingToken(lines[RowStart]).amt)
    ELSE NaN

\* C3 as stated: once a code line with a valid trailing amount has been
\* read, its record is emitted and the three state variables are reset.
C3_CommittedImmediately ==
    (pc = "line" /\ i >= 1 /\ HasInlineAmount(lines[i])) =>
        /\ curr_code = None
        /\ desc_parts = <<>>
        /\ pending_amt = None
        /\ rows # <<>>
        /\ Last(rows).Code = RE_CODE_LINE(lines[i]).code

\* C3 amended: a code line with a valid trailing amount does not commit its
\* row: reading it emits at most the previous row, sets current_code, keeps
\* the amount as pending_amount and the text before it as first fragment;
\* the row is emitted when it is closed (next code line, boundary line or
\* end of the line sequence), its description then holds every description
\* line read in between and its amount is that of the last standalone valid
\* amount read in between, or else the inline amount.
C3_InlineAmountStaysOpen ==
    /\ [][(pc = "line" /\ i < Len(lines) /\ HasInlineAmount(lines[i + 1])) =>
             /\ curr_code' = RE_CODE_LINE(lines[i + 1]).code
             /\ pending_amt' = TrailingToken(lines[i + 1]).amt
             /\ desc_parts' = FirstFragment(lines[i + 1])
             /\ IF curr_code = None THEN rows' = rows
                ELSE /\ Len(rows') = Len(rows) + 1
                     /\ Take(rows', Len(rows)) = rows
                     /\ Last(rows').Code = curr_code]_vars
    /\ [][(Closing /\ HasInlineAmount(lines[RowStart])) =>
             /\ Len(rows') = Len(rows) + 1
             /\ Last(rows').Code = RE_CODE_LINE(lines[RowStart]).code
             /\ Last(rows').Beschreibung = join_desc_parts(OpenFragments)
             /\ Last(rows').Betrag = OpenAmount]_vars

\* The record of "13 Bar 5.000" has taken up a later description line and
\* a later standalone amount.
C3_Witness ==
    /\ pc = "done"
    /\ \E k \in 1..Len(all_rows) :
          /\ all_rows[k].Code = <<"1", "3">>
          /\ all_rows[k].Beschreibung = <<"Bar", " ", "und", " ", "so">>
          /\ all_rows[k].Betrag = 750000

-----------------------------------------------------------------------------
(* C4 *)

\* C4 as stated: the row is emitted with the amount of every standalone
\* valid-amount line that arrived while it was open.
C4_EmittedWithThatAmount ==
    [][Closing =>
          \A j \in OpenAmountLines :
              Last(rows').Betrag = AmountValue(RE_AMOUNT_ONLY(lines[j]).amt)]_vars

\* C4 amended: a standalone valid-amount line that arrives while a row is
\* open emits no record at that step and is kept as pending_amount; the row
\* is emitted at the next code line, boundary line or end of the line
\* sequence with the amount of the last such line read for it (a later
\* standalone valid amount replaces an earlier one).
C4_PendingUntilClosed ==
    /\ [][(/\ pc = "line"
           /\ i < Len(lines)
           /\ curr_code # None
           /\ IsAmountLine(lines[i + 1])) =>
             /\ rows' = rows
             /\ pending_amt' = RE_AMOUNT_ONLY(lines[i + 1]).amt
             /\ curr_code' = curr_code
             /\ desc_parts' = desc_parts]_vars
    /\ [][(Closing /\ OpenAmountLines # {}) =>
             /\ Len(rows') = Len(rows) + 1
             /\ Last(rows').Code = curr_code
             /\ Last(rows').Betrag = OpenAmount]_vars

\* A row with no inline amount was closed by the end of the line sequence
\* right after a standalone amount line, and carries that amount.
C4_Witness ==
    /\ pc = "tables"
    /\ Len(lines) >= 2
    /\ IsAmountLine(lines[Len(lines)])
    /\ IsCodeLine(lines[Len(lines) - 1])
    /\ ~HasInlineAmount(lines[Len(lines) - 1])
    /\ rows # <<>>
    /\ Last(rows).Betrag = AmountValue(RE_AMOUNT_ONLY(lines[Len(lines)]).amt)

-----------------------------------------------------------------------------
(* C5 *)

\* The amount tokens of the table's lines that the validity rule accepts.
AcceptedTokens ==
    {RE_AMOUNT_ONLY(lines[k]).amt : k \in {j \in 1..Len(lines) : IsAmountLine(lines[j])}}
    \cup
    {TrailingToken(lines[k]).amt : k \in {j \in 1..Len(lines) : HasInlineAmount(lines[j])}}

\* A line whose numeric token is bare and below 1000: standalone, or
\* trailing on a code line.
SmallBareLine(ln) ==
    \/ IsCodeLine(ln) /\ TrailingToken(ln).ok /\ ~Accepted(TrailingToken(ln).amt)
    \/ ~IsCodeLine(ln) /\ RE_AMOUNT_ONLY(ln).ok /\ ~Accepted(RE_AMOUNT_ONLY(ln).amt)

\* C5: a token is stored as pending_amount only if it has a thousands
\* separator or a value >= 1000; after a line whose token is bare and below
\* 1000 nothing is pending; and the amount of every record of the table is
\* NaN or the value of an accepted token of the table.
C5_SmallBareTokenNeverAmount ==
    /\ pending_amt # None => Accepted(pending_amt)
    /\ (pc = "line" /\ i >= 1 /\ SmallBareLine(lines[i])) => pending_amt = None
    /\ pc = "line" =>
          \A k \in 1..Len(rows) :
              (rows[k].Dimension = dimension_label /\ rows[k].Betrag # NaN) =>
                  \E t \in AcceptedTokens : AmountValue(t) = rows[k].Betrag

\* "014 Baz 999" then "90" have been read: neither token became the amount,
\* and the row was closed without one.
C5_Witness ==
    /\ pc = "line"
    /\ i >= 2
    /\ lines[i - 1] = CodeBazSmall
    /\ lines[i] = Bare90
    /\ pending_amt = None
    /\ rows # <<>>
    /\ Last(rows).Code = <<"0", "1", "4">>
    /\ Last(rows).Betrag = NaN

-----------------------------------------------------------------------------
(* C6 *)

\* The end-to-end documents: the heading, the 4-segment context line, the
\* dimension marker and header, then "13 Bar 5.000" and a second code line
\* c with k wrapped lines and the standalone amount line a.
RECURSIVE Repeat(_, _)
Repeat(x, k) == IF k = 0 THEN <<>> ELSE <<x>> \o Repeat(x, k - 1)

E2EDoc(c, k, a) ==
    Preamble \o <<CodeBarAmount, c>> \o Repeat(Wrapped, k) \o <<a>>

E2ERow(code, desc, amount) ==
    [Section |-> <<"2", ".", "1">>,
     Prioritaet |-> <<"1">>,
     Ziel |-> <<"RSO1">>,
     Funding |-> <<"EFRE">>,
     Scope |-> <<"Übergang">>,
     Dimension |-> <<"1", " ", "-", " ", "Interventionsbereich">>,
     Code |-> code,
     Beschreibung |-> desc,
     Betrag |-> amount]

E2ECode(c) == IF c = CodeFoo THEN <<"1", "2">> ELSE <<"0", "1", "4">>
E2EText(c) == IF c = CodeFoo THEN <<"Foo">> ELSE <<"Baz", " ", "9", "9", "9">>
E2EAmount(a) == IF a = Amount7500 THEN 750000 ELSE 100000

\* C6: parsing an end-to-end document yields exactly two records, in the
\* order of the code lines, each with its own code, joined description and
\* amount and with the block's section id and context and the table's label.
C6_EndToEnd ==
    \A c \in {CodeFoo, CodeBazSmall}, a \in {Amount7500, Amount1000Sep},
       k \in 1..(MaxLines - 3) :
        (pc = "done" /\ full_text = E2EDoc(c, k, a)) =>
            all_rows =
                <<E2ERow(<<"1", "3">>, <<"Bar">>, 500000),
                  E2ERow(E2ECode(c),
                         E2EText(c) \o Concat(Repeat(<<" ", "und", " ", "so">>, k)),
                         E2EAmount(a))>>

\* An end-to-end document has been parsed.
C6_Witness ==
    /\ pc = "done"
    /\ full_text = E2EDoc(CodeFoo, 1, Amount7500)
    /\ Len(all_rows) = 2

-----------------------------------------------------------------------------
(* C7 *)

\* The loop over a whole line sequence.
RECURSIVE RunLines(_, _, _)
RunLines(st, ls, env) ==
    IF ls = <<>> THEN st ELSE RunLines(loop_body(st, ls[1], env), Tail(ls), env)

\* The records of the table whose marker is line k of the current block,
\* when the Row Reconstructor runs on that table's lines alone, from unset
\* state, under the table's own label.
TableAlone(k) ==
    LET block_text == blocks[bi].text
        local_text == LocalText(block_text, k)
        header == find_table_header(local_text)
        env == [section_id |-> blocks[bi].section, ctx |-> ctx,
                dimension_label |-> strip(RE_DIMENSION(block_text[k]).dimension)]
    IN  IF ~header.found THEN <<>>
        ELSE emit_row(RunLines(RowState(None, <<>>, None, <<>>),
                               TableLines(Drop(local_text, header.start)), env),
                      env).rows

\* C7: at the start of every dimension table the three state variables are
\* unset, and between two tables the records of the block are those that
\* each table read so far yields on its own, in order: nothing of a table's
\* state reaches the next table.
C7_NoLeakAcrossTables ==
    /\ (pc = "line" /\ i = 0) =>
          /\ curr_code = None
          /\ desc_parts = <<>>
          /\ pending_amt = None
    /\ pc = "tables" =>
          rows = Concat([d \in 1..di |-> TableAlone(dims[d])])

\* The first table ended with an open row, the second starts with lines
\* that are no code lines, and both tables have been read.
C7_Witness ==
    /\ pc = "tables"
    /\ di = 2
    /\ Len(rows) >= 1
    /\ rows[1].Dimension = Label1
    /\ rows[Len(rows)].Dimension = Label1
    /\ LET t1 == LocalText(blocks[bi].text, dims[1])
           t2 == LocalText(blocks[bi].text, dims[2])
       IN  /\ t1 # <<>> /\ Last(t1) = CodeFoo
           /\ find_table_header(t2).found
           /\ Last(t2) = Amount1000Sep
           /\ t2[Len(t2) - 1] = Wrapped

-----------------------------------------------------------------------------
(* C8 *)

\* The lines between marker line k of the block and the next marker hold a
\* column-header line.
HeaderLines == {HeaderDesc, HeaderAmt}
HasHeaderLine(ls) == \E j \in 1..Len(ls) : ls[j] \in HeaderLines

\* The codes of the code lines that follow the first header line (of the
\* Code/Beschreibung/Betrag variant if there is one) of the table at marker
\* line k; none for a table with no header line.
RECURSIVE CodesOf(_)
CodesOf(ls) ==
    IF ls = <<>> THEN <<>>
    ELSE (IF IsCodeLine(ls[1]) THEN <<RE_CODE_LINE(ls[1]).code>> ELSE <<>>)
         \o CodesOf(Tail(ls))

RegionCodes(k) ==
    LET ls == LocalText(blocks[bi].text, k)
        want == IF \E j \in 1..Len(ls) : ls[j] = HeaderDesc
                THEN HeaderDesc ELSE HeaderAmt
    IN  IF ~HasHeaderLine(ls) THEN <<>>
        ELSE LET h == CHOOSE j \in 1..Len(ls) :
                          ls[j] = want /\ \A m \in 1..(j - 1) : ls[m] # want
             IN  CodesOf(Drop(ls, h))

\* C8: no record carries the label of a dimension marker that has no
\* header line before the next marker or the block end, and once the block
\* is read the codes of its records are exactly the codes of the code
\* lines of the tables that have a header, in order: what follows a
\* headerless marker adds nothing and changes nothing.
C8_HeaderlessTableSkipped ==
    pc \in {"tables", "line"} =>
        /\ \A d \in 1..Len(dims) :
              ~HasHeaderLine(LocalText(blocks[bi].text, dims[d])) =>
                  \A k \in 1..Len(rows) :
                      rows[k].Dimension #
                          strip(RE_DIMENSION(blocks[bi].text[dims[d]]).dimension)
        /\ (pc = "tables" /\ di = Len(dims)) =>
              [k \in 1..Len(rows) |-> rows[k].Code]
                  = Concat([d \in 1..Len(dims) |-> RegionCodes(dims[d])])

\* A block whose first table has code lines but no header and whose second
\* table has a header and yields a record has been read.
C8_Witness ==
    /\ pc = "tables"
    /\ di = 2
    /\ Len(dims) = 2
    /\ ~HasHeaderLine(LocalText(blocks[bi].text, dims[1]))
    /\ CodesOf(LocalText(blocks[bi].text, dims[1])) # <<>>
    /\ Len(rows) = 1
    /\ rows[1].Dimension = Label2

-----------------------------------------------------------------------------
(* C9 *)

\* The lines of the document that are section headings.
HeadingIdx == {k \in 1..Len(full_text) : IsBlockStart(full_text[k])}

FirstHeading == CHOOSE k \in HeadingIdx : \A j \in HeadingIdx : k <= j

\* C9: one block per heading, each starting with its heading and holding no
\* other heading; the blocks in order, laid end to end, are the text from
\* the first heading to its end; with no heading there is no block and no
\* record, and the parse still runs to its end.
C9_BlocksPartitionText ==
    pc # "start" =>
        /\ Len(blocks) = Cardinality(HeadingIdx)
        /\ \A k \in 1..Len(blocks) :
              /\ blocks[k].text # <<>>
              /\ IsBlockStart(blocks[k].text[1])
              /\ blocks[k].section = RE_BLOCK_START(blocks[k].text[1]).section
              /\ \A j \in 2..Len(blocks[k].text) : ~IsBlockStart(blocks[k].text[j])
        /\ Concat([k \in 1..Len(blocks) |-> blocks[k].text])
              = IF HeadingIdx = {} THEN <<>> ELSE Drop(full_text, FirstHeading - 1)
        /\ HeadingIdx = {} =>
              /\ blocks = <<>>
              /\ rows = <<>>
              /\ all_rows = <<>>
              /\ pc = "done" \/ ENABLED Next

\* A document with text before its first heading and two blocks has been
\* parsed.
C9_Witness ==
    /\ pc = "done"
    /\ Len(blocks) = 2
    /\ FirstHeading > 1
    /\ blocks[1].section = <<"2", ".", "1">>
    /\ blocks[2].section = <<"2", ".", "A", ".", "1">>
    /\ Len(all_rows) >= 2

-----------------------------------------------------------------------------
(* C10 *)

\* The non-blank lines of the current block and those that hold the
\* priority marker.
BlockLines == NonBlank(blocks[bi].text)
PriorityIdx ==
    {k \in 1..Len(BlockLines) :
        \E j \in 1..Len(BlockLines[k]) : BlockLines[k][j] = "Priorität"}
PriorityLine == CHOOSE k \in PriorityIdx : \A j \in PriorityIdx : k <= j

\* The segments of the priority line after the optional merge: those of the
\* line itself, followed by those of the next line when the line has fewer
\* than three and the next line does not start a table.
MergedSegments ==
    LET own == split_parts_by_slash(BlockLines[PriorityLine])
        nxt == IF PriorityLine < Len(BlockLines)
               THEN strip(BlockLines[PriorityLine + 1]) ELSE <<>>
    IN  IF /\ Len(own) < 3
           /\ nxt # <<>>
           /\ nxt[1] \notin {"Tabelle", "Dimension", "Code"}
        THEN own \o split_parts_by_slash(nxt)
        ELSE own

\* C10: the context of the current block by the segment count n of its
\* priority line: n >= 4 gives funding programme = segment 2 and scope =
\* segment 3; n = 3 gives funding programme = segment 2 and an empty scope;
\* n < 2, or no priority line, leaves priority, objective and funding
\* programme unset with an empty scope.  The scope is always a string, in
\* the context and in every record.
C10_ContextBySegmentCount ==
    bi >= 1 =>
        /\ ctx.Scope # None
        /\ \A k \in 1..Len(rows) : rows[k].Scope = ctx.Scope
        /\ IF PriorityIdx = {}
           THEN ctx = [Prioritaet |-> None, Ziel |-> None, Funding |-> None,
                       Scope |-> <<>>]
           ELSE LET segs == MergedSegments
                    n == Len(segs)
                IN  /\ n >= 4 => ctx.Funding = segs[3] /\ ctx.Scope = segs[4]
                    /\ n = 3 => ctx.Funding = segs[3] /\ ctx.Scope = <<>>
                    /\ n < 2 => ctx = [Prioritaet |-> None, Ziel |-> None,
                                       Funding |-> None, Scope |-> <<>>]

\* A priority line of one segment was merged with the next line to three
\* segments, and the record carries the funding programme and an empty
\* scope.
C10_Witness ==
    /\ pc = "done"
    /\ full_text[2] = SegPrio
    /\ Len(all_rows) = 1
    /\ all_rows[1].Prioritaet = <<"1">>
    /\ all_rows[1].Ziel = <<"RSO1">>
    /\ all_rows[1].Funding = <<"EFRE", " ", "Plus">>
    /\ all_rows[1].Scope = <<>>

-----------------------------------------------------------------------------
(* C11 *)

\* The code lines of the line region of the table at marker line k of block
\* b, each with the label of that marker.
LabelledCodes(b, k) ==
    LET text == blocks[b].text
        ls == LocalText(text, k)
        want == IF \E j \in 1..Len(ls) : ls[j] = HeaderDesc
                THEN HeaderDesc ELSE HeaderAmt
        label == strip(RE_DIMENSION(text[k]).dimension)
    IN  IF ~HasHeaderLine(ls) THEN <<>>
        ELSE LET h == CHOOSE j \in 1..Len(ls) :
                          ls[j] = want /\ \A m \in 1..(j - 1) : ls[m] # want
                 codes == CodesOf(Drop(ls, h))
             IN  [j \in 1..Len(codes) |-> [Dimension |-> label, Code |-> codes[j]]]

\* What the records of block b have to carry, read off the block: its
\* section id, its context, and per code line the label of its table.
Carried(b) ==
    LET text == blocks[b].text
        c == extract_context(text)
        markers == FindIter(IsDimension, text, 1)
        lcs == Concat([d \in 1..Len(markers) |-> LabelledCodes(b, markers[d])])
    IN  [j \in 1..Len(lcs) |->
            [Section |-> RE_BLOCK_START(text[1]).section,
             Prioritaet |-> c.Prioritaet, Ziel |-> c.Ziel,
             Funding |-> c.Funding, Scope |-> c.Scope,
             Dimension |-> lcs[j].Dimension, Code |-> lcs[j].Code]]

\* The attribution fields of a record.
Attribution(r) ==
    [Section |-> r.Section, Prioritaet |-> r.Prioritaet, Ziel |-> r.Ziel,
     Funding |-> r.Funding, Scope |-> r.Scope, Dimension |-> r.Dimension,
     Code |-> r.Code]

\* C11: every record carries the section id and the context of the block
\* that holds its code line and the label of the table that holds it: after
\* each block, the records so far, reduced to section, context, label and
\* code, are those of the code lines of the blocks read so far, in order;
\* the records of the block being read all carry that block's section id
\* and one and the same context.
C11_RecordsCarryBlockAndTable ==
    /\ pc \in {"blocks", "done"} =>
          [k \in 1..Len(all_rows) |-> Attribution(all_rows[k])]
              = Concat([b \in 1..bi |-> Carried(b)])
    /\ pc \in {"tables", "line"} =>
          \A k \in 1..Len(rows) :
              /\ rows[k].Section = blocks[bi].section
              /\ rows[k].Prioritaet = rows[1].Prioritaet
              /\ rows[k].Ziel = rows[1].Ziel
              /\ rows[k].Funding = rows[1].Funding
              /\ rows[k].Scope = rows[1].Scope

\* Two blocks with different section ids, contexts and table labels have
\* been parsed, and each yielded a record.
C11_Witness ==
    /\ pc = "done"
    /\ Len(blocks) = 2
    /\ Len(all_rows) >= 2
    /\ all_rows[1].Section = <<"2", ".", "1">>
    /\ all_rows[1].Prioritaet = <<"1">>
    /\ all_rows[1].Dimension = Label1
    /\ all_rows[Len(all_rows)].Section = <<"2", ".", "A", ".", "1">>
    /\ all_rows[Len(all_rows)].Prioritaet = <<"2">>
    /\ all_rows[Len(all_rows)].Funding = <<"ESF">>
    /\ all_rows[Len(all_rows)].Dimension = Label2

-----------------------------------------------------------------------------
(* C12 *)

\* The primary extractor raises on the file: on opening it or on a page.
PrimaryRaises(file) == \E k \in 1..Len(file.pages) : file.pages[k] = RaiseText

\* The primary extractor reads every page of the file and yields no text.
PrimaryEmpty(file) ==
    /\ ~PrimaryRaises(file)
    /\ \A k \in 1..Len(file.pages) : OrEmpty(file.pages[k]) = <<>>

\* C12: when _pdf_to_text hands over the text of a file, the secondary
\* extractor has run once if the primary extractor raised or yielded empty
\* output, and has not run otherwise.
C12_FallbackOnRaiseOrEmpty ==
    (pc = "start" /\ fi >= 1) =>
        miner_calls = IF PrimaryRaises(files[fi]) \/ PrimaryEmpty(files[fi])
                      THEN 1 ELSE 0

-----------------------------------------------------------------------------
(* C13 *)

\* The text _pdf_to_text returns for a file.
ExtractedText(file) ==
    IF PrimaryRaises(file)
    THEN (IF file.miner = RaiseText THEN <<>> ELSE OrEmpty(file.miner))
    ELSE JoinPages([k \in 1..Len(file.pages) |-> OrEmpty(file.pages[k])])

\* The records of one table, one block and one text, by the row loop run
\* on each table's line region.
TableRecords(section, c, text, k) ==
    LET local_text == LocalText(text, k)
        header == find_table_header(local_text)
        env == [section_id |-> section, ctx |-> c,
                dimension_label |-> strip(RE_DIMENSION(text[k]).dimension)]
    IN  IF ~header.found THEN <<>>
        ELSE emit_row(RunLines(RowState(None, <<>>, None, <<>>),
                               TableLines(Drop(local_text, header.start)), env),
                      env).rows

BlockRecords(b) ==
    LET markers == FindIter(IsDimension, b.text, 1)
    IN  Concat([d \in 1..Len(markers) |->
                   TableRecords(b.section, extract_context(b.text), b.text,
                                markers[d])])

TextRecords(text) ==
    LET bs == extract_blocks(text)
    IN  Concat([k \in 1..Len(bs) |-> BlockRecords(bs[k])])

\* The files of the batch whose parse raised.
Raised == {warnings[k] : k \in 1..Len(warnings)}

\* The records of the files up to file n that did not raise, in upload
\* order.
RecordsUpTo(n) ==
    Concat([f \in 1..n |-> IF f \in Raised THEN <<>>
                           ELSE TextRecords(ExtractedText(files[f]))])

\* C13: a file whose parse raises is skipped and the loop goes on to the
\* end of the batch; the frames collected so far hold the records of the
\* files that parsed, in upload order; the result holds those of the whole
\* batch, each marked Keep, and is empty only when no file yielded a record.
C13_BatchIsolation ==
    /\ pc = "files" => Concat(frames) = RecordsUpTo(fi)
    /\ pc = "finished" =>
          /\ fi = Len(files)
          /\ Raised \subseteq 1..Len(files)
          /\ Len(batch) = Len(RecordsUpTo(Len(files)))
          /\ \A k \in 1..Len(batch) :
                batch[k] = [Keep |-> TRUE] @@ RecordsUpTo(Len(files))[k]

\* The parse of the first file raised after its rows were read, and the
\* result holds the two records of the second file.
C13_Witness ==
    /\ pc = "finished"
    /\ Len(files) = 2
    /\ warnings = <<1>>
    /\ TextRecords(ExtractedText(files[1])) # <<>>
    /\ Len(batch) = 2
    /\ batch[1].Code = <<"1", "2">>
    /\ batch[2].Section = <<"2", ".", "A", ".", "1">>

-----------------------------------------------------------------------------
(* C14 *)

\* The text of a fragment: trimmed, then without its soft hyphens.
FragmentText(f) == normalise_soft_hyphen(strip(f))

\* The fragments that are not blank, as texts.
RECURSIVE FragmentTexts(_)
FragmentTexts(fs) ==
    IF fs = <<>> THEN <<>>
    ELSE (IF strip(fs[1]) # <<>> THEN <<FragmentText(fs[1])>> ELSE <<>>)
         \o FragmentTexts(Tail(fs))

\* The rule pair by pair: a text that ends with a hyphen loses it and is
\* followed by the rest with no space, any other text is followed by one
\* space and the rest.
RECURSIVE PairwiseJoin(_)
PairwiseJoin(ts) ==
    IF ts = <<>> THEN <<>>
    ELSE IF Len(ts) = 1 THEN ts[1]
    ELSE IF ts[1] # <<>> /\ Last(ts[1]) = "-"
         THEN Take(ts[1], Len(ts[1]) - 1) \o PairwiseJoin(Tail(ts))
         ELSE ts[1] \o <<" ">> \o PairwiseJoin(Tail(ts))

\* What the result always is: a string, with no soft hyphen and no two
\* whitespace characters in a row.
WellFormedJoin ==
    /\ joined # None
    /\ \A k \in 1..Len(joined) : joined[k] # SoftHyphen
    /\ \A k \in 1..(Len(joined) - 1) : ~(IsSpace(joined[k]) /\ IsSpace(joined[k + 1]))
    /\ fragments = <<>> => joined = <<>>

\* C14 as stated: for any sequence of fragments, the result is the
\* fragments joined pair by pair by the hyphen rule, with no soft hyphen
\* and no two whitespace characters in a row; "" for the empty sequence.
C14_PairwiseForAnyFragments ==
    pc = "joined" =>
        /\ WellFormedJoin
        /\ joined = strip(CollapseSpaces(PairwiseJoin(FragmentTexts(fragments))))

\* A fragment that holds soft hyphens and nothing else.
OnlySoftHyphens(f) == strip(f) # <<>> /\ FragmentText(f) = <<>>

\* C14, amended: the pairwise rule holds for every sequence in which no
\* fragment consists of soft hyphens only; for every sequence the result is
\* a string with no soft hyphen and no two whitespace characters in a row.
C14_PairwiseUnlessOnlySoftHyphens ==
    pc = "joined" =>
        /\ WellFormedJoin
        /\ (\A k \in 1..Len(fragments) : ~OnlySoftHyphens(fragments[k])) =>
              joined = strip(CollapseSpaces(PairwiseJoin(FragmentTexts(fragments))))

\* A word split at a hyphen, a fragment with a soft hyphen inside and a
\* fragment with whitespace around and within have been joined.
C14_Witness ==
    /\ pc = "joined"
    /\ fragments = <<<<"b", "-">>, <<"c", "SHY", "d">>,
                     <<" ", "a", " ", " ", "b", " ">>>>
    /\ joined = <<"b", "c", "d", " ", "a", " ", "b">>

-----------------------------------------------------------------------------
(* C15 *)

\* The three state variables are unset.
Idle == curr_code = None /\ desc_parts = <<>> /\ pending_amt = None

\* One line is processed: a step of the row loop.
ReadsLine == pc = "line" /\ i < Len(lines) /\ i' = i + 1

\* A boundary line has been processed and no code line since.
PastBoundary ==
    \E j \in 1..i :
        /\ IsBoundaryLine(lines[j])
        /\ \A k \in (j + 1)..i : ~IsCodeLine(lines[k])

\* C15: processing a page-number line, a small bare-number line or a
\* table/header marker line leaves the machine Idle, and every line after
\* it up to the next code line leaves the records as they are and the
\* machine Idle.
C15_IdleAfterBoundary ==
    [][ReadsLine =>
          /\ IsBoundaryLine(lines[i + 1]) => Idle'
          /\ (PastBoundary /\ ~IsCodeLine(lines[i + 1])) => (Idle' /\ rows' = rows)
       ]_vars

\* A marker line closed an open row, and a valid amount line and a text
\* line after it have been processed.
C15_Witness ==
    /\ pc = "line"
    /\ i = 4
    /\ lines[1] = CodeFoo
    /\ lines[2] = MarkerLine
    /\ lines[3] = Amount7500
    /\ lines[4] = Wrapped
    /\ Idle
    /\ Len(rows) = 1

-----------------------------------------------------------------------------
(* C16 *)

\* C16: with no current code the description fragments and the pending
\* amount are unset too, and a line that is not a code line (a standalone
\* valid amount, a page number, a marker, free text) emits no record and
\* leaves all three unset.
C16_IdleIgnoresNonCodeLines ==
    [][(pc = "line" /\ curr_code = None) =>
          /\ desc_parts = <<>>
          /\ pending_amt = None
          /\ (ReadsLine /\ ~IsCodeLine(lines[i + 1])) => (Idle' /\ rows' = rows)
       ]_vars

\* A table starts with a valid amount line, a text line and a small bare
\* number; all three were read with no code and nothing was emitted.
C16_Witness ==
    /\ pc = "line"
    /\ i = 3
    /\ lines[1] = Amount7500
    /\ lines[2] = Wrapped
    /\ lines[3] = Bare90
    /\ Idle
    /\ rows = <<>>

-----------------------------------------------------------------------------
(* C17 *)

\* The lines that follow the first column-header line, of either variant,
\* among the lines ls of a table; none when there is no header line.
AfterFirstHeader(ls) ==
    IF ~HasHeaderLine(ls) THEN <<>>
    ELSE LET h == CHOOSE j \in 1..Len(ls) :
                      ls[j] \in HeaderLines /\ \A m \in 1..(j - 1) : ls[m] \notin HeaderLines
         IN  Drop(ls, h)

\* C17: once a table is read, the records of the block are those of the
\* code lines that follow the first column-header line of each table, of
\* whichever variant it is, in order: every code line after the first
\* header is in the line region, also when a header of the other variant
\* comes later.
C17_RegionFromFirstHeader ==
    (pc = "tables" /\ di = Len(dims)) =>
        [k \in 1..Len(rows) |-> rows[k].Code]
            = Concat([d \in 1..Len(dims) |->
                         CodesOf(AfterFirstHeader(LocalText(blocks[bi].text, dims[d])))])

-----------------------------------------------------------------------------
(* C18 *)

\* C18: while a row is open, a standalone line that is a bare number of
\* value 1000 with no thousands separator, or the separator form 1.000,
\* becomes the row's amount: once the line is read the pending amount is
\* that token, worth 1000.
C18_BareThousandAccepted ==
    (/\ pc = "line"
     /\ i >= 2
     /\ curr_code # None
     /\ lines[i] \in {Bare1000, Amount1000Sep}) =>
        /\ pending_amt # None
        /\ norm_amount(pending_amt) = 100000

-----------------------------------------------------------------------------
(* C19 *)

\* The codes of the records of the current block, in order.
RecordCodes == [k \in 1..Len(rows) |-> rows[k].Code]

\* C19: in a table with a recognised header, the line region being the
\* lines the row loop runs over: while the region is read, the codes of the
\* records followed by the code of the open row are the codes of the code
\* lines read so far, in order; once it is read, the codes of the records
\* are those of all its code lines, so there are as many records as code
\* lines, none dropped and none doubled.
C19_OneRecordPerCodeLine ==
    /\ pc = "line" =>
          RecordCodes \o (IF curr_code # None THEN <<curr_code>> ELSE <<>>)
              = CodesOf(SubSeq(lines, 1, i))
    /\ (pc = "tables" /\ di = 1) =>
          /\ RecordCodes = CodesOf(lines)
          /\ Len(rows) = Cardinality({k \in 1..Len(lines) : IsCodeLine(lines[k])})

\* A region whose code lines are closed by a small bare number, by the
\* next code line and by the end of the region has been read: three
\* records.
C19_Witness ==
    /\ pc = "tables"
    /\ lines = <<CodeFoo, Bare90, CodeBarAmount, CodeBazSmall>>
    /\ RecordCodes = <<<<"1", "2">>, <<"1", "3">>, <<"0", "1", "4">>>>

-----------------------------------------------------------------------------
(* C20 *)

\* C20: a row that is closed (by the next code line, a boundary line or
\* the end of the line region) gives one record, whose amount is the last
\* valid amount observed since its code line, a later standalone amount
\* replacing an earlier inline or standalone one, and whose description
\* holds the text of the code line and every non-amount line read in
\* between, also those read after an amount.  An amount is observed when
\* a line matches the amount pattern and passes the validity rule.
C20_LastAmountWins ==
    [][Closing =>
          /\ Len(rows') = Len(rows) + 1
          /\ Take(rows', Len(rows)) = rows
          /\ Last(rows').Code = RE_CODE_LINE(lines[RowStart]).code
          /\ Last(rows').Betrag = OpenAmount
          /\ Last(rows').Beschreibung = join_desc_parts(OpenFragments)
       ]_vars

\* A row with the inline amount 5.000 read the standalone amount 7.500,00,
\* a description line and the standalone amount 1.000 EUR, and was emitted
\* with 1.000 and with the description line.
C20_Witness ==
    /\ pc = "tables"
    /\ lines = <<CodeBarAmount, Amount7500, Wrapped, Amount1000Sep>>
    /\ Len(rows) = 1
    /\ rows[1].Betrag = 100000
    /\ rows[1].Beschreibung = <<"Bar", " ", "und", " ", "so">>

=============================================================================
